---- MODULE Spec2Model ----
(***************************************************************************)
(* Model of the chat-read-retrieve-read approach of                        *)
(* azure-search-openai-javascript: the token-bounded conversation          *)
(* assembler (getMessagesFromHistory) and the three-stage pipeline         *)
(* (baseRun, run, runWithStreaming), and of the ingestion service's config *)
(* plugin (plugins/config.ts).                                             *)
(*                                                                         *)
(* SpecAsm is the assembler alone, Spec the pipeline serving one request   *)
(* at a time, SpecConc the pipeline with two requests under way together,  *)
(* SpecCfg the config plugin.                                              *)
(*                                                                         *)
(* Texts are TLA+ strings; Len(s) is the JavaScript s.length and \o is +.  *)
(* An optional text (a field that may be undefined) is a sequence of       *)
(* length 0 (undefined) or 1 (the text).                                   *)
(***************************************************************************)
EXTENDS Integers, Sequences, FiniteSets, TLC

VARIABLES
  asmIn,      \* arguments of the assembler call under study
  asmShots,   \* the caller's fewShots array (the object passed by reference)
  asmPc,      \* position inside getMessagesFromHistory
  asmMb,      \* the MessageBuilder of the running call
  asmRest,    \* history messages the for-of loop has still to visit
  asmTaken,   \* loop iterations executed by the running call
  asmBefore,  \* messageBuilder.tokens at the start of the latest iteration
  asmOut,     \* the sequences returned so far, one per call
  QUERY_PROMPT_FEW_SHOTS,  \* the module-level few-shot array
  chatGptTokenLimit,       \* this.chatGptTokenLimit, set by the constructor
  req,                     \* the pipeline invocations, one record per request
  env,            \* process.env as the ingestion config plugin finds it
  cfgPc,          \* the config plugin: not yet run, registered or failed
  config,         \* the plugin's config object, as its entries in key order
  logged,         \* messages given to fastify.log.error
  thrown,         \* the message of the Error the plugin threw, if it did
  fastifyConfig   \* fastify.config, once decorated

asmVars == <<asmIn, asmShots, asmPc, asmMb, asmRest, asmTaken, asmBefore, asmOut>>

runVars == <<QUERY_PROMPT_FEW_SHOTS, chatGptTokenLimit, req>>

cfgVars == <<env, cfgPc, config, logged, thrown, fastifyConfig>>

vars == <<asmIn, asmShots, asmPc, asmMb, asmRest, asmTaken, asmBefore, asmOut,
          QUERY_PROMPT_FEW_SHOTS, chatGptTokenLimit, req,
          env, cfgPc, config, logged, thrown, fastifyConfig>>

-----------------------------------------------------------------------------
(* Bounds of the model *)

MaxHistory == 3
MaxCalls == 2
BudgetStep == 20
BudgetSteps == 13
MaxChunks == 2

-----------------------------------------------------------------------------
(* Values *)

Min(a, b) == IF a < b THEN a ELSE b

Msg(role, content) == [role |-> role, content |-> content]

Undefined == <<>>

Some(text) == <<text>>

\* JavaScript truthiness of an optional string: undefined and '' are falsy.
Truthy(opt) == opt # Undefined /\ opt[1] # ""

\* String conversion of an optional text in a concatenation or a template
\* literal: undefined becomes 'undefined'.
Show(opt) == IF opt = Undefined THEN "undefined" ELSE opt[1]

Reverse(s) == [i \in 1..Len(s) |-> s[Len(s) + 1 - i]]

\* history.slice(0, -1): a copy without the last element.
SliceButLast(s) == IF Len(s) = 0 THEN <<>> ELSE SubSeq(s, 1, Len(s) - 1)

QUERY_PROMPT_FEW_SHOTS_INIT ==
  << Msg("user", "What happens if a payment error occurs?"),
     Msg("assistant", "Show support for payment errors"),
     Msg("user", "can I get refunded if cannot travel?"),
     Msg("assistant", "Refund policy") >>

-----------------------------------------------------------------------------
(* MessageBuilder (message-builder.js) and the token meter *)

\* Token cost of one message: a fixed overhead plus the size of its values.
costOf(m) == 2 + Len(m.role) + Len(m.content)

\* new MessageBuilder(systemContent, model)
MessageBuilder(systemContent) ==
  [ messages |-> << Msg("system", systemContent) >>,
    tokens   |-> costOf(Msg("system", systemContent)) ]

\* Array.prototype.splice(index, 0, m): an index past the end is clamped.
Splice(s, index, m) ==
  LET i == Min(index, Len(s))
  IN SubSeq(s, 1, i) \o << m >> \o SubSeq(s, i + 1, Len(s))

\* messageBuilder.appendMessage(role, content, index = 1)
appendMessage(mb, role, content, index) ==
  [ messages |-> Splice(mb.messages, index, Msg(role, content)),
    tokens   |-> mb.tokens + costOf(Msg(role, content)) ]

-----------------------------------------------------------------------------
(* getMessagesFromHistory, piece by piece *)

\* for (const shot of <array>) messageBuilder.appendMessage(shot.role, shot.content)
RECURSIVE AppendShots(_, _)
AppendShots(mb, shots) ==
  IF shots = <<>> THEN mb
  ELSE AppendShots(appendMessage(mb, Head(shots).role, Head(shots).content, 1),
                   Tail(shots))

\* fewShots.reverse() returns the array it has reversed in place: this is the
\* array's content after the call, and the order the loop visits.
ReversedInPlace(fewShots) == Reverse(fewShots)

\* A slip in the anchor: one past the slot after the few-shots.
appendIndexOnePast(fewShots) == Len(fewShots) + 2

\* A slip in the anchor: the slot of the last few-shot, which with no
\* few-shots is the slot of the system prompt.
appendIndexAtLastShot(fewShots) == Len(fewShots)

\* Line 199
appendIndex(fewShots) == Len(fewShots) + 1

\* Everything up to the history loop: builder, few-shots, trailing user content.
AssembleHead(systemPrompt, userContent, fewShots) ==
  appendMessage(AppendShots(MessageBuilder(systemPrompt), ReversedInPlace(fewShots)),
                "user", userContent, appendIndex(fewShots))

\* A slip in the loop: the prior turns visited oldest first.
LoopOrderOldestFirst(history) == SliceButLast(history)

\* The messages the history loop visits, in order.
LoopOrder(history) == Reverse(SliceButLast(history))

\* A slip in the loop body: the texts appended without asking whether they
\* are there.
AppendTurnUnchecked(mb, h, idx) ==
  appendMessage(appendMessage(mb, "assistant", Show(h.bot), idx),
                "user", Show(h.user), idx)

\* One loop body up to the budget test: the assistant then the user message.
AppendTurn(mb, h, idx) ==
  LET withBot == IF Truthy(h.bot)
                 THEN appendMessage(mb, "assistant", h.bot[1], idx) ELSE mb
  IN IF Truthy(h.user)
     THEN appendMessage(withBot, "user", h.user[1], idx) ELSE withBot

\* A slip in the budget test: the parameter's default instead of the parameter.
LoopBreaksAtDefault(mb, maxTokens) == mb.tokens > 4096

\* A slip in the budget test: the comparison the wrong way round.
LoopBreaksFlipped(mb, maxTokens) == mb.tokens < maxTokens

\* if (messageBuilder.tokens > maxTokens) break;
LoopBreaks(mb, maxTokens) == mb.tokens > maxTokens

\* The whole for-of loop over history.slice(0, -1).reverse(): the builder it
\* leaves and the number of iterations it executed.
RECURSIVE HistoryLoop(_, _, _, _, _)
HistoryLoop(mb, rest, idx, maxTokens, taken) ==
  IF rest = <<>> THEN [mb |-> mb, taken |-> taken]
  ELSE LET next == AppendTurn(mb, Head(rest), idx)
       IN IF LoopBreaks(next, maxTokens)
          THEN [mb |-> next, taken |-> taken + 1]
          ELSE HistoryLoop(next, Tail(rest), idx, maxTokens, taken + 1)

\* messages.map((m) => ({ role: m.role, content: m.content }))
Returned(mb) == [i \in 1..Len(mb.messages) |->
                   Msg(mb.messages[i].role, mb.messages[i].content)]

\* getMessagesFromHistory as one synchronous call: the loop's outcome ...
AssembleAll(systemPrompt, history, userContent, fewShots, maxTokens) ==
  HistoryLoop(AssembleHead(systemPrompt, userContent, fewShots),
              LoopOrder(history), appendIndex(fewShots), maxTokens, 0)

\* ... and the value it returns. The fewShots array it was given is left
\* holding ReversedInPlace(fewShots).
getMessagesFromHistory(systemPrompt, history, userContent, fewShots, maxTokens) ==
  Returned(AssembleAll(systemPrompt, history, userContent, fewShots, maxTokens).mb)

-----------------------------------------------------------------------------
(* Inputs of the assembler specification *)

Digits == << "1", "2", "3", "4", "5", "6", "7", "8", "9" >>

UserText(i) == "user" \o Digits[i]

BotText(i) == "bot" \o Digits[i]

TurnsAt(i) ==
  { [user |-> u, bot |-> b] :
      u \in {Undefined, Some(UserText(i))}, b \in {Undefined, Some(BotText(i))} }

RECURSIVE HistoriesOfLen(_)
HistoriesOfLen(n) ==
  IF n = 0 THEN { <<>> }
  ELSE { Append(h, t) : h \in HistoriesOfLen(n - 1), t \in TurnsAt(n) }

Histories == UNION { HistoriesOfLen(n) : n \in 0..MaxHistory }

Budgets == { BudgetStep * k : k \in 0..BudgetSteps }

SystemPrompts == { "You are a bot." }

UserContents == { "hi", "a longer question" }

FewShotArrays ==
  { <<>>,
    << Msg("user", "ex"), Msg("assistant", "answer") >>,
    QUERY_PROMPT_FEW_SHOTS_INIT }

-----------------------------------------------------------------------------
(* Texts of the pipeline *)

RECURSIVE Str(_)
\* The string a sequence of strings spells.
Str(parts) == IF parts = <<>> THEN "" ELSE Head(parts) \o Str(Tail(parts))

IsSpace(c) == c \in {" ", "\n", "\t"}

RECURSIVE TrimStart(_)
TrimStart(cs) ==
  IF cs # <<>> /\ IsSpace(Head(cs)) THEN TrimStart(Tail(cs)) ELSE cs

\* String.prototype.trim on a sequence of characters.
Trim(cs) == Reverse(TrimStart(Reverse(TrimStart(cs))))

QUERY_PROMPT_FIRST_LINE ==
  "Below is a history of the conversation so far, and a new question asked by the user that needs to be answered by searching in a knowledge base about terms of service, privacy policy, and questions about support requests."

QUERY_PROMPT_OTHER_LINES ==
  "Generate a search query based on the conversation and the new question.\nDo not include cited source filenames and document names e.g info.txt or doc.pdf in the search query terms.\nDo not include any text inside [] or <<>> in the search query terms.\nDo not include any special characters like '+'.\nIf the question is not in English, translate the question to English before generating the search query.\nIf you cannot generate a search query, return just the number 0.\n"

QUERY_PROMPT_TEMPLATE == QUERY_PROMPT_FIRST_LINE \o "\n" \o QUERY_PROMPT_OTHER_LINES

SYSTEM_MESSAGE_BASE ==
  "Assistant helps the Consto Real Estate company customers with support questions regarding terms of service, privacy policy, and questions about support requests. Be brief in your answers.\nAnswer ONLY with the facts listed in the list of sources below. If there isn't enough information below, say you don't know. Do not generate answers that don't use the sources below. If asking a clarifying question to the user would help, ask the question.\nFor tabular information return it as an html table. Do not return markdown format. If the question is not in English, answer in the language used in the question.\nEach source has a name followed by colon and the actual information, always include the source name for each fact you use in the response. Use square brackets to reference the source, e.g. [info1.txt]. Don't combine sources, list each source separately, e.g. [info1.txt][info2.pdf].\n"

\* The template as the pieces its two placeholders cut it into.
SYSTEM_MESSAGE_CHAT_CONVERSATION ==
  << SYSTEM_MESSAGE_BASE, "{follow_up_questions_prompt}", "\n", "{injected_prompt}", "\n" >>

FOLLOW_UP_QUESTIONS_PROMPT_CONTENT ==
  "Generate three very brief follow-up questions that the user would likely ask next about rentals.\nUse double angle brackets to reference the questions, e.g. <<Am I allowed to invite friends for a party?>>.\nTry not to repeat questions that have already been asked.\nOnly generate questions and do not generate any text before or after the questions, such as 'Next Questions'"

\* String.prototype.replace(placeholder, text) on a template in pieces: the
\* first piece that is the placeholder becomes the text.
RECURSIVE Replace(_, _, _)
Replace(pieces, placeholder, text) ==
  IF pieces = <<>> THEN <<>>
  ELSE IF Head(pieces) = placeholder THEN << text >> \o Tail(pieces)
  ELSE << Head(pieces) >> \o Replace(Tail(pieces), placeholder, text)

\* The replacement text String.prototype.replace(string, string) inserts:
\* in the second argument '$$' stands for '$', '$&' for the matched text,
\* '$`' for the text before the match and "$'" for the text after it; any
\* other '$' is itself (a string pattern has no capture groups).
RECURSIVE GetSubstitution(_, _, _, _)
GetSubstitution(cs, matched, before, after) ==
  IF cs = <<>> THEN ""
  ELSE IF Head(cs) = "$" /\ Len(cs) >= 2 /\ cs[2] \in {"$", "&", "`", "'"}
  THEN (CASE cs[2] = "$" -> "$"
          [] cs[2] = "&" -> matched
          [] cs[2] = "`" -> before
          [] cs[2] = "'" -> after)
       \o GetSubstitution(SubSeq(cs, 3, Len(cs)), matched, before, after)
  ELSE Head(cs) \o GetSubstitution(Tail(cs), matched, before, after)

\* String.prototype.replace(placeholder, text) where the text is the
\* client's, given by its characters: the first piece that is the
\* placeholder becomes the substitution the text stands for.
ReplaceWith(pieces, placeholder, cs) ==
  LET at == { i \in 1..Len(pieces) : pieces[i] = placeholder }
  IN IF at = {} THEN pieces
     ELSE LET i == CHOOSE k \in at : \A l \in at : k <= l
          IN SubSeq(pieces, 1, i - 1)
               \o << GetSubstitution(cs, placeholder, Str(SubSeq(pieces, 1, i - 1)),
                                     Str(SubSeq(pieces, i + 1, Len(pieces)))) >>
               \o SubSeq(pieces, i + 1, Len(pieces))

-----------------------------------------------------------------------------
(* Collaborators whose code is elsewhere in the repository *)

\* getTokenLimit(model): the context sizes the instance may be built with.
TokenLimits == { 900, 4000 }

\* messagesToString (message.js): one 'role: content' paragraph per message.
\* The first paragraph is given apart from the others.
RECURSIVE Paragraphs(_)
Paragraphs(ms) ==
  IF ms = <<>> THEN ""
  ELSE "\n\n" \o Head(ms).role \o ": " \o Head(ms).content \o Paragraphs(Tail(ms))

\* searchDocuments (approach-base.js): what it returns for the documents the
\* index answered with.
RECURSIVE JoinLines(_)
JoinLines(lines) ==
  IF lines = <<>> THEN ""
  ELSE IF Len(lines) = 1 THEN Head(lines)
  ELSE Head(lines) \o "\n" \o JoinLines(Tail(lines))

SearchResult(queryText, docs) ==
  LET results == [i \in 1..Len(docs) |-> docs[i].id \o ": " \o docs[i].text]
  IN [ query   |-> IF queryText = Undefined THEN "" ELSE queryText[1],
       results |-> results,
       content |-> JoinLines(results) ]

-----------------------------------------------------------------------------
(* baseRun, run and runWithStreaming, piece by piece *)

LastUser(history) == history[Len(history)].user

\* Line 99
UserQuery(history) == "Generate search query for: " \o Show(LastUser(history))

\* Lines 104-111: the query-rewrite prompt. The array passed is the
\* module-level one, which the call leaves reversed.
RewriteMessages(history, fewShots, tokenLimit) ==
  getMessagesFromHistory(QUERY_PROMPT_TEMPLATE, history, UserQuery(history),
                         fewShots, tokenLimit - Len(UserQuery(history)))

\* A slip in the request: more than one completion asked for.
RewriteRequestTwoChoices(messages) ==
  [ messages |-> messages, temperature |-> 0, max_tokens |-> 32, n |-> 2 ]

\* Lines 114-120 (temperature in tenths)
RewriteRequest(messages) ==
  [ messages |-> messages, temperature |-> 0, max_tokens |-> 32, n |-> 1 ]

\* A slip in the fallback: the first turn's user text instead of the last's.
QueryTextFirstTurn(content, history) ==
  LET trimmed == IF content = Undefined THEN Undefined
                 ELSE Some(Str(Trim(content[1])))
  IN IF trimmed = Some("0") THEN history[1].user ELSE trimmed

\* Lines 122-126: content is message.content, undefined when the completion
\* carries none, else its characters.
QueryText(content, history) ==
  LET trimmed == IF content = Undefined THEN Undefined
                 ELSE Some(Str(Trim(content[1])))
  IN IF trimmed = Some("0") THEN LastUser(history) ELSE trimmed

\* Line 132
FollowUpQuestionsPrompt(context) ==
  IF context # Undefined /\ context[1].suggest_followup_questions
  THEN FOLLOW_UP_QUESTIONS_PROMPT_CONTENT ELSE ""

\* Line 138: context?.prompt_template, a sequence of characters when given.
PromptOverride(context) ==
  IF context = Undefined THEN Undefined ELSE context[1].prompt_template

StartsWith3(cs) == Len(cs) >= 3 /\ SubSeq(cs, 1, 3) = << ">", ">", ">" >>

\* Lines 139-155
SystemMessage(context) ==
  LET override == PromptOverride(context)
      base == Replace(SYSTEM_MESSAGE_CHAT_CONVERSATION,
                      "{follow_up_questions_prompt}", FollowUpQuestionsPrompt(context))
  IN IF override # Undefined /\ StartsWith3(override[1])
     THEN Str(ReplaceWith(base, "{injected_prompt}",
                          SubSeq(override[1], 4, Len(override[1])) \o << "\n" >>))
     ELSE IF override # Undefined /\ override[1] # <<>>
     THEN Str(ReplaceWith(base, "{injected_prompt}", override[1]))
     ELSE Str(Replace(base, "{injected_prompt}", ""))

\* A slip in the synthesis prompt: the few-shots of the rewrite passed on.
FinalMessagesWithShots(history, context, content, tokenLimit) ==
  getMessagesFromHistory(SystemMessage(context), history,
                         Show(LastUser(history)) \o "\n\nSources:\n" \o content,
                         QUERY_PROMPT_FEW_SHOTS_INIT, tokenLimit)

\* Lines 157-166: the synthesis prompt, built with a fresh empty array.
FinalMessages(history, context, content, tokenLimit) ==
  getMessagesFromHistory(SystemMessage(context), history,
                         Show(LastUser(history)) \o "\n\nSources:\n" \o content,
                         <<>>, tokenLimit)

\* Lines 170-177 (temperature in tenths: 0.7 is 7)
CompletionRequest(finalMessages, context) ==
  [ messages    |-> finalMessages,
    temperature |-> IF context # Undefined /\ context[1].temperature # Undefined
                    THEN context[1].temperature[1] ELSE 7,
    max_tokens  |-> 1024,
    n           |-> 1 ]

\* Lines 168 and 179. messageToDisplay.replace('\n', '<br>') changes the first
\* line break only, and the display begins with the system message of the
\* rewrite prompt, which is QUERY_PROMPT_TEMPLATE: the break after its first line.
Thoughts(query, messages) ==
  "Searched for:<br>" \o query \o "<br><br>Conversations:<br>"
    \o "system: " \o QUERY_PROMPT_FIRST_LINE \o "<br>" \o QUERY_PROMPT_OTHER_LINES
    \o Paragraphs(Tail(messages))

\* Line 67 and line 91: content ?? ''
OrEmpty(opt) == IF opt = Undefined THEN "" ELSE opt[1]

\* A slip in the chunk: evidence and diagnostics sent with every chunk.
ResponseChunkResent(id, dataPoints, thoughts, delta) ==
  [ data_points |-> Some(dataPoints),
    thoughts    |-> Some(thoughts),
    answer      |-> OrEmpty(delta) ]

\* A slip in the chunk: the count starting at one.
ResponseChunkOffByOne(id, dataPoints, thoughts, delta) ==
  [ data_points |-> IF id = 1 THEN Some(dataPoints) ELSE Undefined,
    thoughts    |-> IF id = 1 THEN Some(thoughts) ELSE Undefined,
    answer      |-> OrEmpty(delta) ]

\* Lines 88-92
ResponseChunk(id, dataPoints, thoughts, delta) ==
  [ data_points |-> IF id = 0 THEN Some(dataPoints) ELSE Undefined,
    thoughts    |-> IF id = 0 THEN Some(thoughts) ELSE Undefined,
    answer      |-> OrEmpty(delta) ]

-----------------------------------------------------------------------------
(* The ingestion service's config plugin (plugins/config.ts) *)

LowerCase == << "a", "b", "c", "d", "e", "f", "g", "h", "i", "j", "k", "l", "m", "n", "o", "p", "q", "r", "s", "t", "u", "v", "w", "x", "y", "z" >>

UpperCase == << "A", "B", "C", "D", "E", "F", "G", "H", "I", "J", "K", "L", "M", "N", "O", "P", "Q", "R", "S", "T", "U", "V", "W", "X", "Y", "Z" >>

IsUpperCase(c) == \E i \in 1..Len(UpperCase) : UpperCase[i] = c

\* String.prototype.toUpperCase on one character.
ToUpperCase(c) ==
  IF \E i \in 1..Len(LowerCase) : LowerCase[i] = c
  THEN UpperCase[CHOOSE i \in 1..Len(LowerCase) : LowerCase[i] = c]
  ELSE c

\* str.replaceAll(/[A-Z]/g, (l) => `_${l}`) on a sequence of characters.
RECURSIVE UnderscoreCapitals(_)
UnderscoreCapitals(cs) ==
  IF cs = <<>> THEN <<>>
  ELSE (IF IsUpperCase(Head(cs)) THEN << "_", Head(cs) >> ELSE << Head(cs) >>)
         \o UnderscoreCapitals(Tail(cs))

\* Line 18
camelCaseToUpperSnakeCase(str) ==
  LET marked == UnderscoreCapitals(str)
  IN Str([i \in 1..Len(marked) |-> ToUpperCase(marked[i])])

\* Lines 27-37: the keys of the config object in insertion order, the
\* environment variable each is read from and what stands in for a missing
\* or empty one.
ConfigEntries ==
  << [ key |-> << "a", "z", "u", "r", "e", "S", "t", "o", "r", "a", "g", "e", "A", "c", "c", "o", "u", "n", "t" >>,
       variable |-> "AZURE_STORAGE_ACCOUNT", orElse |-> "" ],
     [ key |-> << "a", "z", "u", "r", "e", "S", "t", "o", "r", "a", "g", "e", "C", "o", "n", "t", "a", "i", "n", "e", "r" >>,
       variable |-> "AZURE_STORAGE_CONTAINER", orElse |-> "" ],
     [ key |-> << "a", "z", "u", "r", "e", "S", "e", "a", "r", "c", "h", "S", "e", "r", "v", "i", "c", "e" >>,
       variable |-> "AZURE_SEARCH_SERVICE", orElse |-> "" ],
     [ key |-> << "a", "z", "u", "r", "e", "S", "e", "a", "r", "c", "h", "I", "n", "d", "e", "x" >>,
       variable |-> "AZURE_SEARCH_INDEX", orElse |-> "" ],
     [ key |-> << "a", "z", "u", "r", "e", "O", "p", "e", "n", "A", "i", "S", "e", "r", "v", "i", "c", "e" >>,
       variable |-> "AZURE_OPENAI_SERVICE", orElse |-> "" ],
     [ key |-> << "a", "z", "u", "r", "e", "O", "p", "e", "n", "A", "i", "E", "m", "b", "D", "e", "p", "l", "o", "y", "m", "e", "n", "t" >>,
       variable |-> "AZURE_OPENAI_EMB_DEPLOYMENT", orElse |-> "" ],
     [ key |-> << "a", "z", "u", "r", "e", "O", "p", "e", "n", "A", "i", "E", "m", "b", "e", "d", "d", "i", "n", "g", "M", "o", "d", "e", "l" >>,
       variable |-> "AZURE_OPENAI_EMBEDDING_MODEL", orElse |-> "text-embedding-ada-002" ],
     [ key |-> << "k", "b", "F", "i", "e", "l", "d", "s", "C", "o", "n", "t", "e", "n", "t" >>,
       variable |-> "KB_FIELDS_CONTENT", orElse |-> "content" ],
     [ key |-> << "k", "b", "F", "i", "e", "l", "d", "s", "S", "o", "u", "r", "c", "e", "P", "a", "g", "e" >>,
       variable |-> "KB_FIELDS_SOURCEPAGE", orElse |-> "sourcepage" ] >>

EnvNames == { ConfigEntries[i].variable : i \in 1..Len(ConfigEntries) }

\* What process.env holds for a name: nothing, the empty string, a value.
EnvValues == { Undefined, Some(""), Some("x") }

\* process.env.X || orElse
OrElse(value, orElse) == IF Truthy(value) THEN value[1] ELSE orElse

\* Lines 27-37
BuildConfig(e) ==
  [i \in 1..Len(ConfigEntries) |->
     [ key |-> ConfigEntries[i].key,
       value |-> OrElse(e[ConfigEntries[i].variable], ConfigEntries[i].orElse) ]]

\* A slip in the check: a value is missing only when it is undefined, which
\* after line 27-37 none is.
MissingOnlyUndefined(value) == FALSE

\* Line 41: !value
Missing(value) == value = ""

\* Lines 40-46: the entries are visited in order; the index of the first
\* whose value is missing, 0 when the loop ends without one.
RECURSIVE FirstMissing(_, _)
FirstMissing(c, i) ==
  IF i > Len(c) THEN 0
  ELSE IF Missing(c[i].value) THEN i
  ELSE FirstMissing(c, i + 1)

\* Line 42
MustBeSet(key) == camelCaseToUpperSnakeCase(key) \o " environment variable must be set"

CfgIdle ==
  /\ env = [n \in EnvNames |-> Undefined]
  /\ cfgPc = "start"
  /\ config = <<>>
  /\ logged = <<>>
  /\ thrown = Undefined
  /\ fastifyConfig = Undefined

-----------------------------------------------------------------------------
(* Inputs of the pipeline specification *)

Requests == { "r1", "r2" }

Turn(u, b) == [user |-> u, bot |-> b]

RunHistories ==
  { <<>>,
    << Turn(Some(UserText(1)), Undefined) >>,
    << Turn(Undefined, Undefined) >>,
    << Turn(Some(UserText(1)), Some(BotText(1))), Turn(Some(UserText(2)), Undefined) >>,
    << Turn(Some(UserText(1)), Some(BotText(1))), Turn(Undefined, Some(BotText(2))),
       Turn(Some(UserText(3)), Undefined) >>,
    << Turn(Some(UserText(1)), Undefined), Turn(Undefined, Undefined),
       Turn(Some(UserText(3)), Undefined) >> }

Contexts ==
  { Undefined,
    Some([ suggest_followup_questions |-> TRUE,
           prompt_template |-> Some(<< ">", ">", ">", "b", "e" >>),
           temperature |-> Some(3) ]),
    Some([ suggest_followup_questions |-> FALSE,
           prompt_template |-> Some(<< "b", "e", " ", "k", "i", "n", "d" >>),
           temperature |-> Undefined ]),
    Some([ suggest_followup_questions |-> FALSE,
           prompt_template |-> Some(<< "f", "e", "e", ":", " ", "$", "$", "5" >>),
           temperature |-> Undefined ]) }

\* message.content of the rewrite completion: none, or its characters.
CompletionContents ==
  { Undefined, Some(<<>>), Some(<< " " >>), Some(<< "0" >>),
    Some(<< " ", "0", "\n" >>), Some(<< "q" >>), Some(<< " ", "q", "0" >>) }

DocLists ==
  { <<>>,
    << [id |-> "info1.txt", text |-> "refunds take 5 days"],
       [id |-> "info2.pdf", text |-> "no refunds on travel"] >> }

AnswerContents == { Undefined, Some("It depends [info1.txt]") }

\* The calls a request awaits.
CallKinds == { "getChat", "rewrite", "search", "answer", "chunk" }

ChunkTexts == << "Hel", "lo", " there", "!", "?", ".", ",", ";", ":" >>

\* delta.content of the chunk with the given index: none, or its text.
DeltasAt(id) == { Undefined, Some(ChunkTexts[id + 1]) }

-----------------------------------------------------------------------------
(* The pipeline as a state machine. JavaScript runs each request's code     *)
(* without interruption from one await to the next: an action is one such   *)
(* stretch, and pc names the await the request is suspended at.             *)

IdleRequest ==
  [ pc |-> "idle", mode |-> "none", history |-> <<>>, context |-> Undefined,
    messages |-> <<>>, rewriteContent |-> Undefined, log |-> <<>>, pending |-> {},
    completionRequest |-> Undefined, dataPoints |-> <<>>, thoughts |-> "",
    id |-> 0, deltas |-> <<>>, out |-> <<>>, error |-> "", fault |-> "" ]

RunIdle ==
  /\ QUERY_PROMPT_FEW_SHOTS = QUERY_PROMPT_FEW_SHOTS_INIT
  /\ chatGptTokenLimit = 4000
  /\ req = [r \in Requests |-> IdleRequest]

RunInit ==
  /\ QUERY_PROMPT_FEW_SHOTS = QUERY_PROMPT_FEW_SHOTS_INIT
  /\ chatGptTokenLimit \in TokenLimits
  /\ req = [r \in Requests |-> IdleRequest]
  /\ asmIn = [ systemPrompt |-> "", history |-> <<>>, userContent |-> "", maxTokens |-> 0 ]
  /\ asmShots = <<>>
  /\ asmPc = "idle"
  /\ asmMb = MessageBuilder("")
  /\ asmRest = <<>>
  /\ asmTaken = 0
  /\ asmBefore = 0
  /\ asmOut = <<>>
  /\ CfgIdle

\* One caller at a time: a request starts when no other is under way and the
\* outcome of the one before has been taken.
MayStart(r) == \A o \in Requests \ {r} : req[o].pc = "idle"

\* A slip: the call is not awaited, and is still outstanding when the code
\* goes on.
NotAwaited(q, kind) == q

\* await: the code goes on when the call it waits for has answered.
Awaited(q, kind) == [q EXCEPT !.pending = @ \ {kind}]

\* A slip: the rejection is caught and dropped, the invocation ends as if
\* it had completed.
ThrownCaught(q, kind) == [q EXCEPT !.pc = "done"]

\* An awaited call rejects. There is no try/catch in run, runWithStreaming
\* or baseRun: the rejection leaves the invocation at once and becomes the
\* rejection of run's promise or of the generator's next().
Thrown(q, kind) == [q EXCEPT !.pc = "failed", !.error = kind]

Issue(q, kind, detail) ==
  [ log |-> Append(q.log, [kind |-> kind, detail |-> detail]), pending |-> q.pending \cup {kind} ]

\* run(history, context) or the first next() of runWithStreaming(history,
\* context), up to baseRun's first await (lines 99-113). An empty history
\* makes line 99 read .user of undefined, which throws.
Begin(r, mode, history, context) ==
  /\ req[r].pc = "idle"
  /\ IF history = <<>>
     THEN /\ req' = [req EXCEPT ![r] = [IdleRequest EXCEPT
                       !.pc = "failed", !.mode = mode, !.context = context,
                       !.error = "TypeError"]]
          /\ UNCHANGED QUERY_PROMPT_FEW_SHOTS
     ELSE /\ req' = [req EXCEPT ![r] = [IdleRequest EXCEPT
                       !.pc = "getChat1", !.mode = mode, !.history = history,
                       !.context = context,
                       !.messages = RewriteMessages(history, QUERY_PROMPT_FEW_SHOTS,
                                                    chatGptTokenLimit),
                       !.log = Issue(IdleRequest, "getChat", "baseRun").log,
                       !.pending = Issue(IdleRequest, "getChat", "baseRun").pending]]
          /\ QUERY_PROMPT_FEW_SHOTS' = ReversedInPlace(QUERY_PROMPT_FEW_SHOTS)
  /\ UNCHANGED chatGptTokenLimit
  /\ UNCHANGED <<asmVars, cfgVars>>

\* The same, called by a caller that takes one request at a time.
Start(r, mode, history, context) ==
  /\ MayStart(r)
  /\ Begin(r, mode, history, context)

\* Lines 113-120: getChat() has answered, the rewrite completion is requested.
RewriteIssued(r) ==
  /\ req[r].pc = "getChat1"
  /\ LET q == Awaited(req[r], "getChat")
         i == Issue(q, "rewrite", RewriteRequest(q.messages))
     IN req' = [req EXCEPT ![r] = [q EXCEPT !.pc = "rewrite", !.log = i.log,
                                            !.pending = i.pending]]
  /\ UNCHANGED <<QUERY_PROMPT_FEW_SHOTS, chatGptTokenLimit>>
  /\ UNCHANGED <<asmVars, cfgVars>>

\* Lines 122-131: the rewrite completion has answered, the search is requested.
RewriteReturns(r, content) ==
  /\ req[r].pc = "rewrite"
  /\ LET q == Awaited(req[r], "rewrite")
         i == Issue(q, "search", QueryText(content, q.history))
     IN req' = [req EXCEPT ![r] = [q EXCEPT !.pc = "search", !.rewriteContent = content,
                                            !.log = i.log, !.pending = i.pending]]
  /\ UNCHANGED <<QUERY_PROMPT_FEW_SHOTS, chatGptTokenLimit>>
  /\ UNCHANGED <<asmVars, cfgVars>>

\* Lines 131-180, then line 65 or 81: the search has answered, the request is
\* built, baseRun returns and the caller asks getChat().
SearchReturns(r, docs) ==
  /\ req[r].pc = "search"
  /\ LET q == Awaited(req[r], "search")
         found == SearchResult(q.log[Len(q.log)].detail, docs)
         final == FinalMessages(q.history, q.context, found.content, chatGptTokenLimit)
         i == Issue(q, "getChat", q.mode)
     IN req' = [req EXCEPT ![r] = [q EXCEPT
                  !.pc = "getChat2",
                  !.completionRequest = Some(CompletionRequest(final, q.context)),
                  !.dataPoints = found.results,
                  !.thoughts = Thoughts(found.query, q.messages),
                  !.log = i.log, !.pending = i.pending]]
  /\ UNCHANGED <<QUERY_PROMPT_FEW_SHOTS, chatGptTokenLimit>>
  /\ UNCHANGED <<asmVars, cfgVars>>

\* Line 66, or lines 82-85 with stream: true.
AnswerIssued(r) ==
  /\ req[r].pc = "getChat2"
  /\ LET q == Awaited(req[r], "getChat")
         i == Issue(q, "answer",
                    [request |-> q.completionRequest[1], stream |-> q.mode = "stream"])
     IN req' = [req EXCEPT ![r] = [q EXCEPT !.pc = "answer", !.log = i.log,
                                            !.pending = i.pending]]
  /\ UNCHANGED <<QUERY_PROMPT_FEW_SHOTS, chatGptTokenLimit>>
  /\ UNCHANGED <<asmVars, cfgVars>>

\* Lines 67-73: run returns its response.
AnswerReturns(r, content) ==
  /\ req[r].pc = "answer"
  /\ req[r].mode = "run"
  /\ req' = [req EXCEPT ![r] = [Awaited(req[r], "answer") EXCEPT
               !.pc = "done",
               !.out = << [ data_points |-> Some(req[r].dataPoints),
                            answer      |-> OrEmpty(content),
                            thoughts    |-> Some(req[r].thoughts) ] >>]]
  /\ UNCHANGED <<QUERY_PROMPT_FEW_SHOTS, chatGptTokenLimit>>
  /\ UNCHANGED <<asmVars, cfgVars>>

\* Lines 86-87: the stream is open, the loop asks for its first chunk.
StreamOpens(r) ==
  /\ req[r].pc = "answer"
  /\ req[r].mode = "stream"
  /\ req' = [req EXCEPT ![r] = [Awaited(req[r], "answer") EXCEPT
               !.pc = "streaming", !.id = 0, !.pending = @ \cup {"chunk"}]]
  /\ UNCHANGED <<QUERY_PROMPT_FEW_SHOTS, chatGptTokenLimit>>
  /\ UNCHANGED <<asmVars, cfgVars>>

\* Lines 87-95: a chunk arrives, its record is yielded, the consumer asks for
\* the next.
StreamChunk(r) ==
  /\ req[r].pc = "streaming"
  /\ req[r].id < MaxChunks
  /\ \E delta \in DeltasAt(req[r].id) :
       req' = [req EXCEPT ![r] = [@ EXCEPT
                 !.deltas = Append(@, delta),
                 !.out = Append(@, ResponseChunk(req[r].id, req[r].dataPoints,
                                                 req[r].thoughts, delta)),
                 !.id = @ + 1]]
  /\ UNCHANGED <<QUERY_PROMPT_FEW_SHOTS, chatGptTokenLimit>>
  /\ UNCHANGED <<asmVars, cfgVars>>

\* Line 87, line 96: the stream is exhausted, the generator completes.
StreamEnds(r) ==
  /\ req[r].pc = "streaming"
  /\ req' = [req EXCEPT ![r] = [Awaited(req[r], "chunk") EXCEPT !.pc = "done"]]
  /\ UNCHANGED <<QUERY_PROMPT_FEW_SHOTS, chatGptTokenLimit>>
  /\ UNCHANGED <<asmVars, cfgVars>>

\* The call the request is waiting for (getChat, the rewrite completion, the
\* search, the answer completion or the opening of the stream, the next
\* chunk) fails; fault records which one the environment failed.
CallFails(r, kind) ==
  /\ req[r].pc \notin {"idle", "done", "failed"}
  /\ kind \in req[r].pending
  /\ req' = [req EXCEPT ![r] = [Thrown(Awaited(req[r], kind), kind) EXCEPT
               !.fault = kind]]
  /\ UNCHANGED <<QUERY_PROMPT_FEW_SHOTS, chatGptTokenLimit>>
  /\ UNCHANGED <<asmVars, cfgVars>>

\* The caller has taken the outcome; nothing of the invocation remains.
Release(r) ==
  /\ req[r].pc \in {"done", "failed"}
  /\ req' = [req EXCEPT ![r] = IdleRequest]
  /\ UNCHANGED <<QUERY_PROMPT_FEW_SHOTS, chatGptTokenLimit>>
  /\ UNCHANGED <<asmVars, cfgVars>>

RunNext ==
  \/ \E r \in Requests, mode \in {"run", "stream"}, history \in RunHistories,
        context \in Contexts : Start(r, mode, history, context)
  \/ \E r \in Requests : RewriteIssued(r)
  \/ \E r \in Requests, content \in CompletionContents : RewriteReturns(r, content)
  \/ \E r \in Requests, docs \in DocLists : SearchReturns(r, docs)
  \/ \E r \in Requests : AnswerIssued(r)
  \/ \E r \in Requests, content \in AnswerContents : AnswerReturns(r, content)
  \/ \E r \in Requests : StreamOpens(r)
  \/ \E r \in Requests : StreamChunk(r)
  \/ \E r \in Requests : StreamEnds(r)
  \/ \E r \in Requests, kind \in CallKinds : CallFails(r, kind)
  \/ \E r \in Requests : Release(r)

Spec == RunInit /\ [][RunNext]_vars

-----------------------------------------------------------------------------
(* Requests under way at the same time: the server starts a request while   *)
(* another is suspended at an await, and the stretches between awaits of    *)
(* the two interleave in every order. The inputs are fewer than in Spec.    *)

ConcHistories ==
  { << Turn(Some(UserText(1)), Undefined) >>,
    << Turn(Some(UserText(1)), Some(BotText(1))), Turn(Some(UserText(2)), Undefined) >> }

ConcContexts == { Undefined }

ConcCompletionContents == { Some(<< "q" >>) }

ConcDocLists ==
  { << [id |-> "info1.txt", text |-> "refunds take 5 days"] >> }

ConcAnswerContents == { Some("It depends [info1.txt]") }

ConcInit ==
  /\ RunInit
  /\ chatGptTokenLimit = 4000

ConcNext ==
  \/ \E r \in Requests, mode \in {"run", "stream"}, history \in ConcHistories,
        context \in ConcContexts : Begin(r, mode, history, context)
  \/ \E r \in Requests : RewriteIssued(r)
  \/ \E r \in Requests, content \in ConcCompletionContents : RewriteReturns(r, content)
  \/ \E r \in Requests, docs \in ConcDocLists : SearchReturns(r, docs)
  \/ \E r \in Requests : AnswerIssued(r)
  \/ \E r \in Requests, content \in ConcAnswerContents : AnswerReturns(r, content)
  \/ \E r \in Requests : StreamOpens(r)
  \/ \E r \in Requests : StreamChunk(r)
  \/ \E r \in Requests : StreamEnds(r)
  \/ \E r \in Requests : Release(r)

SpecConc == ConcInit /\ [][ConcNext]_vars

-----------------------------------------------------------------------------
(* The assembler as a state machine: one call after another on the same     *)
(* arguments, the fewShots array being the same object in every call.       *)

AsmInit ==
  /\ asmIn \in [ systemPrompt : SystemPrompts, history : Histories,
                 userContent : UserContents, maxTokens : Budgets ]
  /\ asmShots \in FewShotArrays
  /\ asmPc = "idle"
  /\ asmMb = MessageBuilder("")
  /\ asmRest = <<>>
  /\ asmTaken = 0
  /\ asmBefore = 0
  /\ asmOut = <<>>
  /\ RunIdle
  /\ CfgIdle

\* Lines 191-200: the builder, the few-shots, the trailing user content.
AsmCall ==
  /\ asmPc = "idle"
  /\ Len(asmOut) < MaxCalls
  /\ asmShots' = ReversedInPlace(asmShots)
  /\ asmMb' = AssembleHead(asmIn.systemPrompt, asmIn.userContent, asmShots)
  /\ asmRest' = LoopOrder(asmIn.history)
  /\ asmTaken' = 0
  /\ asmBefore' = 0
  /\ asmPc' = "loop"
  /\ UNCHANGED <<asmIn, asmOut>>
  /\ UNCHANGED <<runVars, cfgVars>>

\* Lines 202-212: one iteration of the history loop.
AsmTurn ==
  /\ asmPc = "loop"
  /\ asmRest # <<>>
  /\ asmBefore' = asmMb.tokens
  /\ asmMb' = AppendTurn(asmMb, Head(asmRest), appendIndex(asmShots))
  /\ asmTaken' = asmTaken + 1
  /\ asmRest' = Tail(asmRest)
  /\ asmPc' = IF LoopBreaks(asmMb', asmIn.maxTokens) THEN "break" ELSE "loop"
  /\ UNCHANGED <<asmIn, asmShots, asmOut>>
  /\ UNCHANGED <<runVars, cfgVars>>

\* Lines 214-215: the loop is over (exhausted or broken), the copy is returned.
AsmReturn ==
  /\ \/ asmPc = "loop" /\ asmRest = <<>>
     \/ asmPc = "break"
  /\ asmOut' = Append(asmOut, Returned(asmMb))
  /\ asmPc' = "idle"
  /\ UNCHANGED <<asmIn, asmShots, asmMb, asmRest, asmTaken, asmBefore>>
  /\ UNCHANGED <<runVars, cfgVars>>

AsmNext == AsmCall \/ AsmTurn \/ AsmReturn

SpecAsm == AsmInit /\ [][AsmNext]_vars

-----------------------------------------------------------------------------
(* The config plugin as a state machine: one run on the environment found *)

CfgInit ==
  /\ env \in [EnvNames -> EnvValues]
  /\ cfgPc = "start"
  /\ config = <<>>
  /\ logged = <<>>
  /\ thrown = Undefined
  /\ fastifyConfig = Undefined
  /\ RunIdle
  /\ asmIn = [ systemPrompt |-> "", history |-> <<>>, userContent |-> "", maxTokens |-> 0 ]
  /\ asmShots = <<>>
  /\ asmPc = "idle"
  /\ asmMb = MessageBuilder("")
  /\ asmRest = <<>>
  /\ asmTaken = 0
  /\ asmBefore = 0
  /\ asmOut = <<>>

\* Lines 21-49: the plugin function, which runs from its first line to its
\* return or its throw without an await. (dotenv.config has put the .env
\* file's values into process.env: env is what it has left there.)
ConfigPlugin ==
  /\ cfgPc = "start"
  /\ config' = BuildConfig(env)
  /\ LET i == FirstMissing(config', 1)
     IN IF i # 0
        THEN /\ logged' = Append(logged, MustBeSet(config'[i].key))
             /\ thrown' = Some(MustBeSet(config'[i].key))
             /\ cfgPc' = "failed"
             /\ UNCHANGED fastifyConfig
        ELSE /\ fastifyConfig' = Some(config')
             /\ cfgPc' = "registered"
             /\ UNCHANGED <<logged, thrown>>
  /\ UNCHANGED env
  /\ UNCHANGED <<asmVars, runVars>>

CfgNext == ConfigPlugin

SpecCfg == CfgInit /\ [][CfgNext]_vars

-----------------------------------------------------------------------------
(* Properties of the pipeline, checked under Spec *)

\* The request has built its query-rewrite prompt.
Built(r) == req[r].pc \notin {"idle", "failed"}

Kinds(r) == [i \in 1..Len(req[r].log) |-> req[r].log[i].kind]

\* The request has called searchDocuments; the query it passed.
SearchIssued(r) == Len(req[r].log) >= 3

SearchQuery(r) == req[r].log[3].detail

\* C2: in every call of getMessagesFromHistory made with the module-level
\* few-shots, the first run's and every later run's alike, the few-shot
\* messages follow the system message in their original forward order.
C2_FewShotsForward ==
  \A r \in Requests :
    Built(r) => /\ Len(req[r].messages) >= 6
                /\ SubSeq(req[r].messages, 2, 5) = QUERY_PROMPT_FEW_SHOTS_INIT

\* C7: when the rewrite completion's text trims to exactly "0", the query
\* passed to searchDocuments is the last history turn's user text; for any
\* other non-empty trimmed text it is that trimmed text.
C7_SentinelFallback ==
  \A r \in Requests :
    (SearchIssued(r) /\ req[r].rewriteContent # Undefined) =>
      LET trimmed == Str(Trim(req[r].rewriteContent[1]))
      IN /\ trimmed = "0" => SearchQuery(r) = LastUser(req[r].history)
         /\ trimmed \notin {"0", ""} => SearchQuery(r) = Some(trimmed)

\* The completion said " 0\n" after two turns and the search was asked for
\* the second turn's user text.
C7_Witness ==
  \E r \in Requests :
    /\ SearchIssued(r)
    /\ req[r].rewriteContent = Some(<< " ", "0", "\n" >>)
    /\ Len(req[r].history) = 2
    /\ SearchQuery(r) = Some(UserText(2))

\* C8: when the rewrite completion's text is empty after trimming, or there
\* is none, the query passed to searchDocuments is the last history turn's
\* user text, and no empty or undefined query is passed.
C8_EmptyFallback ==
  \A r \in Requests :
    SearchIssued(r) =>
      /\ ( \/ req[r].rewriteContent = Undefined
           \/ Str(Trim(req[r].rewriteContent[1])) = "" )
           => SearchQuery(r) = LastUser(req[r].history)
      /\ LastUser(req[r].history) \notin {Undefined, Some("")}
           => SearchQuery(r) \notin {Undefined, Some("")}

\* C9: runWithStreaming yields one record per chunk, in stream order; record
\* 0 carries data_points and thoughts, every later record has them
\* undefined, and the answers spell what the deltas spell, a missing delta
\* content counting as the empty string.
C9_StreamRecords ==
  \A r \in Requests :
    req[r].mode = "stream" =>
      /\ Len(req[r].out) = Len(req[r].deltas)
      /\ Len(req[r].out) = req[r].id
      /\ \A i \in 1..Len(req[r].out) :
           /\ req[r].out[i].answer = OrEmpty(req[r].deltas[i])
           /\ i = 1 => /\ req[r].out[i].data_points = Some(req[r].dataPoints)
                       /\ req[r].out[i].thoughts = Some(req[r].thoughts)
           /\ i > 1 => /\ req[r].out[i].data_points = Undefined
                       /\ req[r].out[i].thoughts = Undefined
      /\ Str([i \in 1..Len(req[r].out) |-> req[r].out[i].answer])
           = Str([i \in 1..Len(req[r].deltas) |-> OrEmpty(req[r].deltas[i])])

\* A stream of two chunks, the second with no content, has been consumed to
\* its end.
C9_Witness ==
  \E r \in Requests :
    /\ req[r].mode = "stream"
    /\ req[r].pc = "done"
    /\ req[r].deltas = << Some("Hel"), Undefined >>
    /\ Len(req[r].out) = 2
    /\ req[r].dataPoints # <<>>

IsPrefix(s, t) == Len(s) <= Len(t) /\ s = SubSeq(t, 1, Len(s))

\* C10: within one request the calls go out in the order rewrite completion,
\* search, answer completion (each completion behind its getChat()), each
\* only after the one before has returned: never two outstanding, and a
\* finished request has made exactly one of each, each completion with n = 1.
C10_CallOrder ==
  \A r \in Requests :
    /\ IsPrefix(Kinds(r), << "getChat", "rewrite", "search", "getChat", "answer" >>)
    /\ Cardinality(req[r].pending) <= 1
    /\ req[r].pending \subseteq
         {"chunk"} \cup (IF req[r].log = <<>> THEN {} ELSE {Kinds(r)[Len(req[r].log)]})
    /\ \A i \in 1..Len(req[r].log) :
         /\ Kinds(r)[i] = "rewrite" => req[r].log[i].detail.n = 1
         /\ Kinds(r)[i] = "answer" => req[r].log[i].detail.request.n = 1
    /\ req[r].pc = "done" => Len(req[r].log) = 5 /\ req[r].pending = {}

\* A request has finished, all of its calls made and answered.
C10_Witness ==
  \E r \in Requests :
    /\ req[r].pc = "done"
    /\ req[r].mode = "run"
    /\ Len(req[r].log) = 5
    /\ req[r].out # <<>>

\* The messages a turn stands for in a prompt: its user text, then its
\* assistant text, each if there is one.
TurnMessages(h) ==
  (IF Truthy(h.user) THEN << Msg("user", h.user[1]) >> ELSE <<>>)
    \o (IF Truthy(h.bot) THEN << Msg("assistant", h.bot[1]) >> ELSE <<>>)

RECURSIVE TurnsMessages(_, _, _)
\* The messages of the turns from..to of a history, in the history's order.
TurnsMessages(history, from, to) ==
  IF from > to THEN <<>>
  ELSE TurnMessages(history[from]) \o TurnsMessages(history, from + 1, to)

\* The synthesis prompt the request has built.
Final(r) == req[r].completionRequest[1].messages

\* C17: missing optional fields are skipped, not rejected. A prior turn
\* without bot text contributes no assistant message, one without user text
\* no user message, one with neither nothing: between its head and its
\* trailing message each prompt holds the messages of the texts that are
\* there, no others. A run with no context has the default system prompt,
\* both placeholders empty, and temperature 0.7 (7 tenths). None of this
\* raises an error: only an empty history makes a run throw by itself.
C17_MissingFieldsSkipped ==
  \A r \in Requests :
    /\ req[r].error = "TypeError" => req[r].history = <<>>
    /\ Built(r) =>
         \E j \in 1..(Len(req[r].history) + 1) :
           SubSeq(req[r].messages, 6, Len(req[r].messages) - 1)
             = TurnsMessages(req[r].history, j, Len(req[r].history) - 1)
    /\ req[r].completionRequest # Undefined =>
         /\ \E j \in 1..(Len(req[r].history) + 1) :
              SubSeq(Final(r), 2, Len(Final(r)) - 1)
                = TurnsMessages(req[r].history, j, Len(req[r].history) - 1)
         /\ req[r].context = Undefined =>
              /\ Final(r)[1] = Msg("system", SYSTEM_MESSAGE_BASE \o "\n\n")
              /\ req[r].completionRequest[1].temperature = 7

\* A run with no context, on a history whose first turn has no bot text and
\* whose second has neither text, has built its synthesis prompt: system
\* message, the first turn's user text, the trailing content.
C17_Witness ==
  \E r \in Requests :
    /\ req[r].context = Undefined
    /\ req[r].history = << Turn(Some(UserText(1)), Undefined), Turn(Undefined, Undefined),
                           Turn(Some(UserText(3)), Undefined) >>
    /\ req[r].pc = "done"
    /\ Len(Final(r)) = 3
    /\ Final(r)[2] = Msg("user", UserText(1))

\* The messages of the fixed few-shots, as a set.
FewShotSet == { QUERY_PROMPT_FEW_SHOTS_INIT[i] : i \in 1..Len(QUERY_PROMPT_FEW_SHOTS_INIT) }

\* C18: when the last history turn has a user text, the query-rewrite
\* prompt's last message is the user message 'Generate search query for: '
\* + that text, and the prompt holds the fixed few-shots after its system
\* message; the synthesis prompt's last message is the user message of that
\* text + '\n\nSources:\n' + the evidence block, and no message of the
\* synthesis prompt is a few-shot.
C18_TrailingContents ==
  \A r \in Requests :
    (Built(r) /\ LastUser(req[r].history) # Undefined) =>
      LET user == LastUser(req[r].history)[1]
          rewrite == req[r].messages
      IN /\ rewrite[Len(rewrite)] = Msg("user", "Generate search query for: " \o user)
         /\ { rewrite[i] : i \in 2..5 } = FewShotSet
         /\ req[r].completionRequest # Undefined =>
              /\ Final(r)[Len(Final(r))]
                   = Msg("user", user \o "\n\nSources:\n" \o JoinLines(req[r].dataPoints))
              /\ \A i \in 1..Len(Final(r)) : Final(r)[i] \notin FewShotSet

\* A request on two turns has built both prompts, the search having
\* answered with two documents.
C18_Witness ==
  \E r \in Requests :
    /\ req[r].completionRequest # Undefined
    /\ Len(req[r].history) = 2
    /\ req[r].messages[Len(req[r].messages)]
         = Msg("user", "Generate search query for: user2")
    /\ Final(r)[Len(Final(r))]
         = Msg("user", "user2\n\nSources:\ninfo1.txt: refunds take 5 days\ninfo2.pdf: no refunds on travel")

\* The records of the request's output that carry evidence, and those that
\* carry diagnostics.
WithEvidence(r) == { i \in 1..Len(req[r].out) : req[r].out[i].data_points # Undefined }

WithThoughts(r) == { i \in 1..Len(req[r].out) : req[r].out[i].thoughts # Undefined }

\* C19: in streaming mode evidence and diagnostics are delivered exactly
\* once as soon as the stream has produced a chunk, and not at all when it
\* ends without one: the generator then completes having yielded nothing,
\* although the rewrite, the search and the prompt assembly all ran.
C19_EvidenceOnceOrNever ==
  \A r \in Requests :
    req[r].mode = "stream" =>
      /\ Len(req[r].deltas) >= 1 =>
           /\ Cardinality(WithEvidence(r)) = 1
           /\ Cardinality(WithThoughts(r)) = 1
      /\ Len(req[r].deltas) = 0 => req[r].out = <<>>
      /\ (req[r].pc = "done" /\ req[r].deltas = <<>>) =>
           /\ Kinds(r) = << "getChat", "rewrite", "search", "getChat", "answer" >>
           /\ req[r].completionRequest # Undefined
           /\ req[r].thoughts # ""

\* A stream ended without a chunk: the generator has completed and has
\* yielded nothing, the evidence found is lost.
C19_Witness ==
  \E r \in Requests :
    /\ req[r].mode = "stream"
    /\ req[r].pc = "done"
    /\ req[r].deltas = <<>>
    /\ req[r].out = <<>>
    /\ req[r].dataPoints # <<>>

\* The system message of the synthesis prompt the request has built.
ResolvedSystemMessage(r) == req[r].completionRequest[1].messages[1].content

\* C13: in the resolved system prompt '{injected_prompt}' is replaced by the
\* override without its first three characters, plus a newline, when the
\* override starts with '>>>'; by exactly the override when one is given
\* without that prefix; by the empty string when none is given. On its own,
\* '{follow_up_questions_prompt}' is replaced by the follow-up block when
\* suggest_followup_questions is set, and by the empty string otherwise.
C13_PromptOverride ==
  \A r \in Requests :
    req[r].completionRequest # Undefined =>
      LET c == req[r].context
          given == c # Undefined /\ c[1].prompt_template # Undefined
          o == IF given THEN c[1].prompt_template[1] ELSE <<>>
          injected == IF given /\ Len(o) >= 3 /\ SubSeq(o, 1, 3) = << ">", ">", ">" >>
                      THEN Str(SubSeq(o, 4, Len(o))) \o "\n"
                      ELSE Str(o)
          followUp == IF c # Undefined /\ c[1].suggest_followup_questions
                      THEN FOLLOW_UP_QUESTIONS_PROMPT_CONTENT ELSE ""
      IN ResolvedSystemMessage(r)
           = SYSTEM_MESSAGE_BASE \o followUp \o "\n" \o injected \o "\n"

\* C12: a failure is not caught. If the rewrite completion fails, neither
\* the search nor the answer completion is issued; if the search fails, the
\* answer completion is not issued; in both the error reaches the caller.
\* In streaming, a failure of any of the three stages, or of opening the
\* stream, reaches the consumer before any chunk is yielded; a failure in
\* mid-stream reaches it after the chunks already yielded, and no further
\* chunk follows.
C12_FailuresPropagate ==
  \A r \in Requests :
    req[r].fault # "" =>
      /\ req[r].pc = "failed"
      /\ req[r].error = req[r].fault
      /\ req[r].pending = {}
      /\ req[r].fault = "rewrite" => Kinds(r) = << "getChat", "rewrite" >>
      /\ req[r].fault = "search" => Kinds(r) = << "getChat", "rewrite", "search" >>
      /\ req[r].fault # "chunk" => req[r].out = <<>>
      /\ req[r].fault = "chunk" =>
           /\ req[r].mode = "stream"
           /\ Len(req[r].out) = req[r].id
           /\ Len(req[r].out) = Len(req[r].deltas)
      /\ ~ ENABLED StreamChunk(r)
      /\ ~ ENABLED AnswerIssued(r)
      /\ ~ ENABLED RewriteReturns(r, Undefined)
      /\ ~ ENABLED SearchReturns(r, <<>>)

\* A stream failed after it had delivered a chunk.
C12_Witness ==
  \E r \in Requests :
    /\ req[r].fault = "chunk"
    /\ req[r].pc = "failed"
    /\ Len(req[r].out) >= 1

-----------------------------------------------------------------------------
(* Properties of requests under way together, checked under SpecConc *)

\* C11: a run leaves the module-level QUERY_PROMPT_FEW_SHOTS as it found it
\* (and the caller's history too), so that under any interleaving the
\* query-rewrite prompt of a request depends on that request's history only:
\* two requests with the same history have the same prompt.
C11_RequestsIndependent ==
  /\ QUERY_PROMPT_FEW_SHOTS = QUERY_PROMPT_FEW_SHOTS_INIT
  /\ \A r1, r2 \in Requests :
       (Built(r1) /\ Built(r2) /\ req[r1].history = req[r2].history)
         => req[r1].messages = req[r2].messages

\* Both requests were given the same history and context, and their
\* collaborators answered alike.
SameInputs(r1, r2) ==
  /\ req[r1].history = req[r2].history
  /\ req[r1].context = req[r2].context
  /\ req[r1].rewriteContent = req[r2].rewriteContent
  /\ req[r1].dataPoints = req[r2].dataPoints

\* The answer completion the request asked for.
AnswerCall(r) == req[r].log[5].detail

\* C14: for the same history, context and collaborator responses run and
\* runWithStreaming send the same completion request, the stream flag apart,
\* and the data_points and thoughts of the first streamed record are those
\* run returns.
C14_ModesAgree ==
  \A r1, r2 \in Requests :
    ( /\ req[r1].mode = "run" /\ req[r1].out # <<>>
      /\ req[r2].mode = "stream" /\ req[r2].out # <<>>
      /\ SameInputs(r1, r2) ) =>
      /\ AnswerCall(r1).request = AnswerCall(r2).request
      /\ ~ AnswerCall(r1).stream /\ AnswerCall(r2).stream
      /\ req[r2].out[1].data_points = req[r1].out[1].data_points
      /\ req[r2].out[1].thoughts = req[r1].out[1].thoughts

-----------------------------------------------------------------------------
(* Properties of the assembler, checked under SpecAsm *)

RECURSIVE TotalCost(_)
TotalCost(ms) == IF ms = <<>> THEN 0 ELSE costOf(Head(ms)) + TotalCost(Tail(ms))

\* The number of messages the history loop contributed to a returned sequence.
HistoryMessages(out) == Len(out) - Len(asmShots) - 2

\* The step-by-step machine and the one-call operator agree: the latest
\* returned sequence is the operator's value on the array as it was when the
\* call began (the array has been reversed since).
StepwiseAgrees ==
  (asmPc = "idle" /\ asmOut # <<>>) =>
    asmOut[Len(asmOut)] =
      getMessagesFromHistory(asmIn.systemPrompt, asmIn.history, asmIn.userContent,
                             Reverse(asmShots), asmIn.maxTokens)

\* C1: every sequence getMessagesFromHistory returns has the system prompt
\* (role 'system') at position 0 and the trailing user content (role 'user',
\* content = userContent) as its last element.
C1_SystemFirstUserLast ==
  \A k \in 1..Len(asmOut) :
    /\ Len(asmOut[k]) >= 2
    /\ asmOut[k][1] = Msg("system", asmIn.systemPrompt)
    /\ asmOut[k][Len(asmOut[k])] = Msg("user", asmIn.userContent)

\* A call with few-shots and at least two history messages has returned.
C1_Witness ==
  /\ asmOut # <<>>
  /\ Len(asmShots) = 4
  /\ HistoryMessages(asmOut[1]) >= 2

\* C3: two calls in a row with the same arguments (the same fewShots array
\* among them) return identical sequences.
C3_Idempotent ==
  \A i, j \in 1..Len(asmOut) : asmOut[i] = asmOut[j]

\* C4 as stated: the cumulative token cost of every returned sequence is at
\* most maxTokens.
C4_NeverExceedsBudget ==
  \A k \in 1..Len(asmOut) : TotalCost(asmOut[k]) <= asmIn.maxTokens

\* C4 as amended: the cost may exceed maxTokens, but history overshoots by at
\* most one turn: whenever the loop has executed two or more iterations, the
\* builder's token count before the latest one was within maxTokens.
C4_OnlyLastTurnOverflows ==
  asmTaken >= 2 => asmBefore <= asmIn.maxTokens

\* The loop broke on its second or a later iteration, over the budget.
C4_Witness ==
  /\ asmPc = "break"
  /\ asmTaken >= 2
  /\ asmMb.tokens > asmIn.maxTokens

\* C5 as stated: no history message is inserted into a sequence whose cost
\* already exceeds maxTokens.
C5_NoInsertionOverBudget ==
  [][(asmPc = "loop" /\ asmMb'.messages # asmMb.messages)
       => asmMb.tokens <= asmIn.maxTokens]_vars

\* Iterations the loop executes for the arguments of the state under budget m.
TurnsIncluded(m) ==
  AssembleAll(asmIn.systemPrompt, asmIn.history, asmIn.userContent,
              asmShots, m).taken

\* C6: with the other arguments fixed, a larger maxTokens never includes
\* fewer history turns.
C6_Monotone ==
  (asmPc = "idle" /\ asmOut # <<>>) =>
    /\ asmTaken = TurnsIncluded(asmIn.maxTokens)
    /\ \A m \in Budgets : m <= asmIn.maxTokens => TurnsIncluded(m) <= asmTaken

\* A call has returned whose budget admits strictly more turns than a
\* smaller budget does.
C6_Witness ==
  /\ asmPc = "idle" /\ asmOut # <<>>
  /\ asmTaken = TurnsIncluded(asmIn.maxTokens)
  /\ \E m \in Budgets : m < asmIn.maxTokens /\ TurnsIncluded(m) < asmTaken

\* C15: the assembler is total. With an empty history, with no few-shots,
\* with a trailing content that alone exceeds maxTokens, a call that has
\* begun always goes on to return, and what it returns is a well-formed
\* message sequence of at least two elements (exactly the system prompt, the
\* few-shots and the trailing content when the history is empty).
C15_AssemblerTotal ==
  /\ asmPc # "idle" => ENABLED (AsmTurn \/ AsmReturn)
  /\ \A k \in 1..Len(asmOut) :
       /\ Len(asmOut[k]) >= 2
       /\ \A i \in 1..Len(asmOut[k]) :
            /\ DOMAIN asmOut[k][i] = {"role", "content"}
            /\ i = 1 => asmOut[k][i].role = "system"
            /\ i > 1 => asmOut[k][i].role \in {"user", "assistant"}
       /\ asmOut[k][Len(asmOut[k])].role = "user"
       /\ asmIn.history = <<>> => Len(asmOut[k]) = Len(asmShots) + 2

\* A call with an empty history, no few-shots and a trailing content larger
\* than the whole budget has returned its two messages.
C15_Witness ==
  /\ asmOut # <<>>
  /\ asmIn.history = <<>>
  /\ asmShots = <<>>
  /\ costOf(Msg("user", asmIn.userContent)) > asmIn.maxTokens
  /\ Len(asmOut[1]) = 2

\* What a returned sequence holds between the few-shots and the trailing
\* user content.
HistoryPart(out) == SubSeq(out, Len(asmShots) + 2, Len(out) - 1)

\* C16: the history a returned sequence includes is a contiguous run of the
\* most recent prior turns in chronological order: after the system prompt
\* and the few-shots come the turns j..n-2 (0-based) for some j, each as its
\* user message then its assistant message, then the trailing user content.
\* The last history element contributes nothing: its texts never appear.
C16_RecentTurnsInOrder ==
  \A k \in 1..Len(asmOut) :
    LET n == Len(asmIn.history)
    IN /\ \E j \in 1..(n + 1) :
            HistoryPart(asmOut[k]) = TurnsMessages(asmIn.history, j, n - 1)
       /\ n > 0 =>
            \A i \in 1..Len(asmOut[k]) :
              /\ asmOut[k][i].content # BotText(n)
              /\ asmOut[k][i].content # UserText(n)

\* A call on three turns has returned with the newer of the two prior turns,
\* both its messages, and without the older.
C16_Witness ==
  /\ asmOut # <<>>
  /\ Len(asmIn.history) = 3
  /\ asmIn.history[1].user # Undefined
  /\ asmIn.history[3].bot # Undefined
  /\ HistoryPart(asmOut[1]) = << Msg("user", UserText(2)), Msg("assistant", BotText(2)) >>

-----------------------------------------------------------------------------
(* Properties of the config plugin, checked under SpecCfg *)

\* The nine config variables, named in upper snake case.
UpperSnakeNames ==
  << "AZURE_STORAGE_ACCOUNT", "AZURE_STORAGE_CONTAINER", "AZURE_SEARCH_SERVICE",
     "AZURE_SEARCH_INDEX", "AZURE_OPEN_AI_SERVICE", "AZURE_OPEN_AI_EMB_DEPLOYMENT",
     "AZURE_OPEN_AI_EMBEDDING_MODEL", "KB_FIELDS_CONTENT", "KB_FIELDS_SOURCE_PAGE" >>

\* The entries of the config object whose value is empty.
EmptyValues == { i \in 1..Len(config) : config[i].value = "" }

\* C20: the config plugin never registers a partial configuration. The
\* embedding model, the content field and the source-page field have
\* defaults and are never empty; each of the other six is empty when its
\* environment variable is unset or empty. If any of the nine values is
\* empty the plugin throws an error naming such a variable in upper snake
\* case and fastify.decorate is not reached; decorate is reached, with the
\* whole config, exactly when all nine are non-empty.
C20_NoPartialConfig ==
  cfgPc # "start" =>
    /\ Len(config) = 9
    /\ \A i \in 1..9 :
         (config[i].value = "")
           <=> (i <= 6 /\ env[ConfigEntries[i].variable] \in {Undefined, Some("")})
    /\ EmptyValues # {} =>
         /\ cfgPc = "failed"
         /\ fastifyConfig = Undefined
         /\ \E i \in EmptyValues :
              thrown = Some(UpperSnakeNames[i] \o " environment variable must be set")
    /\ EmptyValues = {} =>
         /\ cfgPc = "registered"
         /\ thrown = Undefined
         /\ fastifyConfig = Some(config)

\* With the first four variables set and AZURE_OPENAI_SERVICE not, and none
\* of the three with defaults set, the plugin has thrown and fastify.config
\* is not there.
C20_Witness ==
  /\ cfgPc = "failed"
  /\ \A i \in 1..4 : env[ConfigEntries[i].variable] = Some("x")
  /\ \A i \in {5, 7, 8, 9} : env[ConfigEntries[i].variable] = Undefined
  /\ thrown = Some("AZURE_OPEN_AI_SERVICE environment variable must be set")
  /\ logged = << "AZURE_OPEN_AI_SERVICE environment variable must be set" >>
  /\ config[9].value = "sourcepage"
  /\ fastifyConfig = Undefined

====
